---- MODULE Spec2Model ----
(***************************************************************************)
(* Session-lifecycle controller of discatpy: Client.login, Client._end_run, *)
(* Client.gateway_run and Client.run of src/discatpy/client.py, with the    *)
(* collaborators the client drives (HTTPClient, GatewayClient, Dispatcher,  *)
(* ClientCache) modelled by the interface the specification gives them.     *)
(***************************************************************************)
EXTENDS Integers, Sequences, FiniteSets, TLC

\* ------------------------------------------------------------------ bounds
\* Counters of run-unit drives and raised exceptions, and the dispatch log,
\* saturate here, so that an endless error loop is a cycle of the state graph.
MaxCount == 4
\* Reconnect requests the environment raises during one run.
MaxRequests == 3
\* Direct calls of _end_run made after run(token) has finished.
MaxShutdowns == 1
\* Calls of grab made by the application.
MaxGrabs == 2
\* Words a type name is made of.
MaxNameLen == 2

\* ------------------------------------------------------------------ values
None == "None"

\* Python's None where the other values are objects.
NoObject == [kind |-> "None"]

Tokens == {"good-token", "bad-token"}

\* Endpoint references the Origin may hand out.
Endpoints == {"wss://a", "wss://b"}

CacheKeys == {<<"user", "bot">>, <<"guild", "g1">>}

EmptyCache == [k \in CacheKeys |-> NoObject]

Entity(kind, id, origin) == [kind |-> kind, id |-> id, origin |-> origin]

\* Caches a controller may hold before run(token): empty, or holding entities
\* the application stored earlier (one of them an older entity of the bot user).
InitialCaches ==
    { EmptyCache,
      [EmptyCache EXCEPT ![<<"guild", "g1">>] = Entity("guild", "g1", "earlier")],
      [EmptyCache EXCEPT ![<<"user", "bot">>] = Entity("user", "bot", "earlier")] }

Inc(n) == IF n < MaxCount THEN n + 1 ELSE n

\* Type names are written as sequences of words, "TextChannel" as
\* <<"Text", "Channel">>; no word is part of another, so a name contains the
\* text "channel" exactly when one of its words is "channel".
Words == {"channel", "Channel", "guild", "Guild", "user", "USER", "Text", "role"}

\* str.lower() on a word.
LowerWord ==
    [w \in Words |->
        CASE w \in {"channel", "Channel"} -> "channel"
          [] w \in {"guild", "Guild"} -> "guild"
          [] w \in {"user", "USER"} -> "user"
          [] w = "Text" -> "text"
          [] OTHER -> w]

\* str.lower() on a name.
Lower(name) == [i \in DOMAIN name |-> LowerWord[name[i]]]

\* `word in name` for the text of one word.
Contains(name, word) == \E i \in DOMAIN name : name[i] = word

TypeNames == UNION {[1..n -> Words] : n \in 0..MaxNameLen}

\* What the application passes as _type: a class (isType) or a string, with
\* its name.
TypeArgs == [isType : BOOLEAN, name : TypeNames]

ClassOf(name) == [isType |-> TRUE, name |-> name]

StrOf(name) == [isType |-> FALSE, name |-> name]

\* The types and identifiers the application grabs.
GrabTypes ==
    { StrOf(<<"guild">>), ClassOf(<<"Guild">>), StrOf(<<"USER">>), ClassOf(<<"user">>),
      ClassOf(<<"Text", "Channel">>), StrOf(<<"role">>) }

GrabIds == {"bot", "g1", "g2"}

Returned(v) == [outcome |-> "returned", value |-> v]

Raised(e) == [outcome |-> "raised", error |-> e]

\* Positions of run(token) inside asyncio.run(wrapped()), each an await.
WrappedPcs ==
    {"login", "get_gateway", "first_connect", "loop", "reconnect_open", "except"}

VARIABLES
    pc,             \* position of the caller's thread
    token,          \* argument of run(token)
    me,             \* Client.me
    cache,          \* Client.cache
    running,        \* Client.running
    gateway,        \* Client.gateway: None or a GatewayClient holding connection ws
    reconnect,      \* Client._gateway_reconnect.is_set()
    gateway_url,    \* local of gateway_run
    httpOpen,       \* the Origin's connection resources are open
    live,           \* connections opened and not yet closed
    nOpens,         \* successful ws_connect calls
    interrupted,    \* the operator has interrupted run(token)
    broken,         \* the connection can no longer be driven: every drive raises
    nRequests,      \* reconnect requests raised so far
    exc,            \* exception caught by the run loop, being dispatched
    pending,        \* exception in flight while the finally clause runs
    result,         \* outcome of run(token): None, "returned" or the exception
    loginResult,    \* outcome of login(token)
    endResult,      \* outcome of the last direct call of _end_run
    caller,         \* who invoked the _end_run in progress: "run" or "direct"
    nAuth,          \* http.login calls
    nEndpoint,      \* http.get_gateway_bot calls
    nLoops,         \* gateway.loop() calls
    nSetCompletions,\* completions of gateway.loop() that found the signal set
    nRaised,        \* exceptions raised inside the run loop
    dispatched,     \* dispatcher.dispatch calls, in order
    nEndRun,        \* _end_run invocations made by run(token)
    nShutdowns,     \* direct _end_run invocations
    closeCalls,     \* close requests issued to the Connection and the Origin
    cache0,         \* the cache as it was before run(token)
    openedWith,     \* endpoints the connections were opened against
    requestedInOpen,\* a reconnect was requested while the last open was awaited
    nCrashed,       \* failures of scheduled "on_error" handlers
    nGrabs,         \* calls of grab
    grabArgs,       \* arguments of the last call of grab
    grabHit,        \* the last call of grab found its object in the cache
    grabResult,     \* outcome of the last call of grab
    selectCalls,    \* calls of _fetch_function_from_type made by grab
    fetchCalls,     \* fetch operations of the Origin invoked by grab
    selectArg,      \* argument of the last direct call of _fetch_function_from_type
    selectResult    \* and its outcome

vars ==
    <<pc, token, me, cache, running, gateway, reconnect, gateway_url, httpOpen,
      live, nOpens, interrupted, broken, nRequests, exc, pending, result,
      loginResult, endResult, caller, nAuth, nEndpoint, nLoops, nSetCompletions, nRaised,
      dispatched, nEndRun, nShutdowns, closeCalls, cache0, openedWith,
      requestedInOpen, nCrashed, nGrabs, grabArgs, grabHit, grabResult,
      selectCalls, fetchCalls, selectArg, selectResult>>

resolverVars ==
    <<nGrabs, grabArgs, grabHit, grabResult, selectCalls, fetchCalls, selectArg, selectResult>>

sessionVars ==
    <<pc, token, me, cache, running, gateway, reconnect, gateway_url, httpOpen,
      live, nOpens, interrupted, broken, nRequests, exc, pending, result,
      loginResult, endResult, caller, nAuth, nEndpoint, nLoops, nSetCompletions, nRaised,
      dispatched, nEndRun, nShutdowns, closeCalls, cache0, openedWith,
      requestedInOpen, nCrashed>>

clientVars == <<me, cache, running, gateway, reconnect>>

counters == <<nAuth, nEndpoint, nLoops, nSetCompletions, nRaised, nEndRun, nShutdowns>>

\* --------------------------------------------------- collaborators (interfaces)
\* Origin.authenticate(credential): succeeds for a valid credential only.
HTTPLoginSucceeds(t) == t = "good-token"

\* Cache.put(typeTag, identifier, Entity).
CachePut(c, e) == [c EXCEPT ![<<e.kind, e.id>>] = e]

\* Connection.close / the end of a run unit: the connection is no longer live.
ConnectionClosed(l, g) == IF g = NoObject THEN l ELSE l \ {g.ws}

\* Dispatcher.dispatch(name, *args): schedules the handlers and returns; never raises.
Dispatch(log, name, args) ==
    IF Len(log) < MaxCount THEN Append(log, [name |-> name, args |-> args]) ELSE log

\* -------------------------------------------------------------------- Init
\* Client.__init__
Init ==
    /\ pc = "idle"
    /\ token = None
    /\ me = NoObject
    /\ cache0 \in InitialCaches
    /\ cache = cache0
    /\ running = FALSE
    /\ gateway = NoObject
    /\ reconnect = FALSE
    /\ gateway_url = None
    /\ httpOpen = TRUE
    /\ live = {}
    /\ nOpens = 0
    /\ broken = FALSE
    /\ interrupted = FALSE
    /\ nRequests = 0
    /\ exc = None
    /\ pending = None
    /\ result = None
    /\ loginResult = None
    /\ endResult = None
    /\ caller = None
    /\ nAuth = 0
    /\ nEndpoint = 0
    /\ nLoops = 0
    /\ nSetCompletions = 0
    /\ nRaised = 0
    /\ dispatched = <<>>
    /\ nEndRun = 0
    /\ nShutdowns = 0
    /\ closeCalls = <<>>
    /\ openedWith = {}
    /\ requestedInOpen = FALSE
    /\ nCrashed = 0
    /\ nGrabs = 0
    /\ grabArgs = NoObject
    /\ grabHit = FALSE
    /\ grabResult = NoObject
    /\ selectCalls = 0
    /\ fetchCalls = <<>>
    /\ selectArg = NoObject
    /\ selectResult = NoObject

\* --------------------------------------------------------------------- run
\* run(token): enters the try block and starts wrapped() with login(token).
Run(t) ==
    /\ pc = "idle"
    /\ token' = t
    /\ pc' = "login"
    /\ UNCHANGED <<clientVars, counters, gateway_url, httpOpen, live, nOpens, interrupted, broken,
                   nRequests, exc, pending, result, loginResult, endResult, caller,
                   dispatched, closeCalls, cache0,
                   openedWith, requestedInOpen, nCrashed, resolverVars>>

\* Faulty variant: the bot user is recorded as me but not put into the cache.
LoginSucceedsNoCache ==
    /\ pc = "login"
    /\ HTTPLoginSucceeds(token)
    /\ nAuth' = nAuth + 1
    /\ me' = Entity("user", "bot", "login")
    /\ loginResult' = "returned"
    /\ pc' = "get_gateway"
    /\ UNCHANGED <<token, cache, running, gateway, reconnect, gateway_url, httpOpen,
                   live, nOpens, interrupted, broken, nRequests, exc, pending, result,
                   endResult, caller, nEndpoint, nLoops, nSetCompletions, nRaised,
                   dispatched, nEndRun, nShutdowns, closeCalls, cache0,
                   openedWith, requestedInOpen, nCrashed, resolverVars>>

\* login: http.login(token) returned the user data; me and the cache are set.
LoginSucceeds ==
    /\ pc = "login"
    /\ HTTPLoginSucceeds(token)
    /\ nAuth' = nAuth + 1
    /\ me' = Entity("user", "bot", "login")
    /\ cache' = CachePut(cache, me')
    /\ loginResult' = "returned"
    /\ pc' = "get_gateway"
    /\ UNCHANGED <<token, running, gateway, reconnect, gateway_url, httpOpen, live,
                   nOpens, interrupted, broken, nRequests, exc, pending, result, endResult, caller,
                   nEndpoint, nLoops, nSetCompletions, nRaised, dispatched, nEndRun,
                   nShutdowns, closeCalls, cache0,
                   openedWith, requestedInOpen, nCrashed, resolverVars>>

\* Faulty variant: the failure of http.login is swallowed and wrapped() goes on
\* to gateway_run.
LoginFailsSwallowed ==
    /\ pc = "login"
    /\ ~HTTPLoginSucceeds(token)
    /\ nAuth' = nAuth + 1
    /\ loginResult' = "AuthenticationError"
    /\ pc' = "get_gateway"
    /\ UNCHANGED <<token, clientVars, gateway_url, httpOpen, live, nOpens, interrupted,
                   broken, nRequests, exc, pending, result, endResult, caller,
                   nEndpoint, nLoops, nSetCompletions, nRaised, dispatched, nEndRun,
                   nShutdowns, closeCalls, cache0,
                   openedWith, requestedInOpen, nCrashed, resolverVars>>

\* login: http.login(token) raised; the error leaves login, wrapped and
\* asyncio.run, and run(token) goes to its finally clause.
LoginFails ==
    /\ pc = "login"
    /\ ~HTTPLoginSucceeds(token)
    /\ nAuth' = nAuth + 1
    /\ loginResult' = "AuthenticationError"
    /\ pending' = "AuthenticationError"
    /\ pc' = "finally"
    /\ UNCHANGED <<token, clientVars, gateway_url, httpOpen, live, nOpens, interrupted, broken,
                   nRequests, exc, result, endResult, caller, nEndpoint, nLoops,
                   nSetCompletions, nRaised, dispatched, nEndRun, nShutdowns,
                   closeCalls, cache0,
                   openedWith, requestedInOpen, nCrashed, resolverVars>>

\* ------------------------------------------------------------- gateway_run
\* gateway_url = (await http.get_gateway_bot())[1]
GetGatewayBot(ok) ==
    /\ pc = "get_gateway"
    /\ nEndpoint' = nEndpoint + 1
    /\ IF ok
         THEN /\ gateway_url' \in Endpoints
              /\ pc' = "first_connect"
              /\ UNCHANGED pending
         ELSE /\ pending' = "NetworkError"
              /\ pc' = "finally"
              /\ UNCHANGED gateway_url
    /\ UNCHANGED <<token, clientVars, httpOpen, live, nOpens, interrupted, broken, nRequests, exc,
                   result, loginResult, endResult, caller, nAuth, nLoops,
                   nSetCompletions, nRaised, dispatched, nEndRun, nShutdowns,
                   closeCalls, cache0,
                   openedWith, requestedInOpen, nCrashed, resolverVars>>

\* self.gateway = GatewayClient(await http.ws_connect(gateway_url), self)
\* self.running = True
FirstConnect(ok) ==
    /\ pc = "first_connect"
    /\ IF ok
         THEN /\ nOpens' = nOpens + 1
              /\ live' = live \cup {nOpens'}
              /\ openedWith' = openedWith \cup {gateway_url}
              /\ gateway' = [kind |-> "GatewayClient", ws |-> nOpens']
              /\ running' = TRUE
              /\ pc' = "loop"
              /\ UNCHANGED pending
         ELSE /\ pending' = "ConnectError"
              /\ pc' = "finally"
              /\ UNCHANGED <<nOpens, live, gateway, running, openedWith>>
    /\ UNCHANGED <<token, me, cache, reconnect, gateway_url, httpOpen, interrupted, broken,
                   nRequests, exc, result, loginResult, endResult, caller, counters,
                   dispatched, closeCalls, cache0,
                   requestedInOpen, nCrashed, resolverVars>>

\* Faulty variant: the test of the signal is inverted.
LoopReturnsInverted(req) ==
    /\ pc = "loop"
    /\ ~broken
    /\ req => nRequests < MaxRequests
    /\ nRequests' = IF req THEN nRequests + 1 ELSE nRequests
    /\ reconnect' = (reconnect \/ req)
    /\ requestedInOpen' = FALSE
    /\ live' = ConnectionClosed(live, gateway)
    /\ nLoops' = Inc(nLoops)
    /\ nSetCompletions' = IF reconnect' THEN Inc(nSetCompletions) ELSE nSetCompletions
    /\ IF ~reconnect'
         THEN pc' = "reconnect_open" /\ UNCHANGED running
         ELSE pc' = "gw_return" /\ running' = FALSE
    /\ UNCHANGED <<token, me, cache, gateway, gateway_url, httpOpen, nOpens,
                   interrupted, broken, exc, pending, result, loginResult, endResult,
                   caller, nAuth, nEndpoint, nRaised, dispatched, nEndRun, nShutdowns,
                   closeCalls, cache0,
                   openedWith, nCrashed, resolverVars>>

\* await self.gateway.loop() returns: the run unit has ended and its connection
\* with it, with (req) or without a reconnect request.  Then the signal is
\* tested: set, the controller goes on to open a connection; clear, it stops.
LoopReturns(req) ==
    /\ pc = "loop"
    /\ ~broken
    /\ req => nRequests < MaxRequests
    /\ nRequests' = IF req THEN nRequests + 1 ELSE nRequests
    /\ reconnect' = (reconnect \/ req)
    /\ requestedInOpen' = FALSE
    /\ live' = ConnectionClosed(live, gateway)
    /\ nLoops' = Inc(nLoops)
    /\ nSetCompletions' = IF reconnect' THEN Inc(nSetCompletions) ELSE nSetCompletions
    /\ IF reconnect'
         THEN pc' = "reconnect_open" /\ UNCHANGED running
         ELSE pc' = "gw_return" /\ running' = FALSE
    /\ UNCHANGED <<token, me, cache, gateway, gateway_url, httpOpen, nOpens, interrupted, broken,
                   exc, pending, result, loginResult, endResult, caller, nAuth,
                   nEndpoint, nRaised, dispatched, nEndRun, nShutdowns, closeCalls,
                   cache0,
                   openedWith, nCrashed, resolverVars>>

\* Faulty variant: the exception is not caught and leaves gateway_run.
LoopRaisesPropagates(closed) ==
    /\ pc = "loop"
    /\ nLoops' = Inc(nLoops)
    /\ nRaised' = Inc(nRaised)
    /\ live' = IF closed THEN ConnectionClosed(live, gateway) ELSE live
    /\ pending' = "LoopError"
    /\ pc' = "finally"
    /\ UNCHANGED <<token, clientVars, gateway_url, httpOpen, nOpens, interrupted,
                   broken, nRequests, exc, result, loginResult, endResult, caller,
                   nAuth, nEndpoint, nSetCompletions, dispatched, nEndRun, nShutdowns,
                   closeCalls, cache0,
                   openedWith, requestedInOpen, nCrashed, resolverVars>>

\* await self.gateway.loop() raises; the connection may or may not survive it.
LoopRaises(closed) ==
    /\ pc = "loop"
    /\ nLoops' = Inc(nLoops)
    /\ nRaised' = Inc(nRaised)
    /\ live' = IF closed THEN ConnectionClosed(live, gateway) ELSE live
    /\ exc' = "LoopError"
    /\ pc' = "except"
    /\ UNCHANGED <<token, clientVars, gateway_url, httpOpen, nOpens, interrupted, broken, nRequests,
                   pending, result, loginResult, endResult, caller, nAuth, nEndpoint,
                   nSetCompletions, dispatched, nEndRun, nShutdowns, closeCalls,
                   cache0,
                   openedWith, requestedInOpen, nCrashed, resolverVars>>

\* Faulty variant: the signal is not cleared after the open.
ReconnectOpenKeepsSignal(ok) ==
    /\ pc = "reconnect_open"
    /\ UNCHANGED requestedInOpen
    /\ IF ok
         THEN /\ nOpens' = nOpens + 1
              /\ live' = live \cup {nOpens'}
              /\ openedWith' = openedWith \cup {gateway_url}
              /\ gateway' = [gateway EXCEPT !.ws = nOpens']
              /\ pc' = "loop"
              /\ UNCHANGED <<exc, nRaised, reconnect>>
         ELSE /\ exc' = "ConnectError"
              /\ nRaised' = Inc(nRaised)
              /\ pc' = "except"
              /\ UNCHANGED <<nOpens, live, openedWith, gateway, reconnect>>
    /\ UNCHANGED <<token, me, cache, running, gateway_url, httpOpen, interrupted,
                   broken, nRequests, pending, result, loginResult, endResult, caller,
                   nAuth, nEndpoint, nLoops, nSetCompletions, dispatched, nEndRun,
                   nShutdowns, closeCalls, cache0,
                   nCrashed, resolverVars>>

\* Faulty variant: the endpoint is asked of the Origin again for each reconnect.
ReconnectOpenRefetches(ok) ==
    /\ pc = "reconnect_open"
    /\ UNCHANGED requestedInOpen
    /\ nEndpoint' = nEndpoint + 1
    /\ gateway_url' \in Endpoints
    /\ IF ok
         THEN /\ nOpens' = nOpens + 1
              /\ live' = live \cup {nOpens'}
              /\ openedWith' = openedWith \cup {gateway_url'}
              /\ gateway' = [gateway EXCEPT !.ws = nOpens']
              /\ reconnect' = FALSE
              /\ pc' = "loop"
              /\ UNCHANGED <<exc, nRaised>>
         ELSE /\ exc' = "ConnectError"
              /\ nRaised' = Inc(nRaised)
              /\ pc' = "except"
              /\ UNCHANGED <<nOpens, live, openedWith, gateway, reconnect>>
    /\ UNCHANGED <<token, me, cache, running, httpOpen, interrupted, broken,
                   nRequests, pending, result, loginResult, endResult, caller, nAuth,
                   nLoops, nSetCompletions, dispatched, nEndRun, nShutdowns,
                   closeCalls, cache0,
                   nCrashed, resolverVars>>

\* Faulty variant: the signal is cleared before the open is awaited, so a
\* failed open loses the request.
ReconnectOpenClearsFirst(ok) ==
    /\ pc = "reconnect_open"
    /\ UNCHANGED requestedInOpen
    /\ reconnect' = FALSE
    /\ IF ok
         THEN /\ nOpens' = nOpens + 1
              /\ live' = live \cup {nOpens'}
              /\ openedWith' = openedWith \cup {gateway_url}
              /\ gateway' = [gateway EXCEPT !.ws = nOpens']
              /\ pc' = "loop"
              /\ UNCHANGED <<exc, nRaised>>
         ELSE /\ exc' = "ConnectError"
              /\ nRaised' = Inc(nRaised)
              /\ pc' = "except"
              /\ UNCHANGED <<nOpens, live, openedWith, gateway>>
    /\ UNCHANGED <<token, me, cache, running, gateway_url, httpOpen, interrupted,
                   broken, nRequests, pending, result, loginResult, endResult, caller,
                   nAuth, nEndpoint, nLoops, nSetCompletions, dispatched, nEndRun,
                   nShutdowns, closeCalls, cache0,
                   nCrashed, resolverVars>>

\* self.gateway.ws = await http.ws_connect(gateway_url)
\* self._gateway_reconnect.clear()
ReconnectOpen(ok) ==
    /\ pc = "reconnect_open"
    /\ UNCHANGED requestedInOpen
    /\ IF ok
         THEN /\ nOpens' = nOpens + 1
              /\ live' = live \cup {nOpens'}
              /\ openedWith' = openedWith \cup {gateway_url}
              /\ gateway' = [gateway EXCEPT !.ws = nOpens']
              /\ reconnect' = FALSE
              /\ pc' = "loop"
              /\ UNCHANGED <<exc, nRaised>>
         ELSE /\ exc' = "ConnectError"
              /\ nRaised' = Inc(nRaised)
              /\ pc' = "except"
              /\ UNCHANGED <<nOpens, live, openedWith, gateway, reconnect>>
    /\ UNCHANGED <<token, me, cache, running, gateway_url, httpOpen, interrupted,
                   broken, nRequests, pending, result, loginResult, endResult, caller,
                   nAuth, nEndpoint, nLoops, nSetCompletions, dispatched, nEndRun,
                   nShutdowns, closeCalls, cache0,
                   nCrashed, resolverVars>>

\* Faulty variant: the handler reconnects on an error, without regard to the
\* connection it holds.
ExceptDispatchReopens ==
    /\ pc = "except"
    /\ dispatched' = Dispatch(dispatched, "on_error", <<exc>>)
    /\ exc' = None
    /\ nOpens' = nOpens + 1
    /\ live' = live \cup {nOpens'}
    /\ openedWith' = openedWith \cup {gateway_url}
    /\ gateway' = [gateway EXCEPT !.ws = nOpens']
    /\ pc' = IF running THEN "loop" ELSE "gw_return"
    /\ UNCHANGED <<token, me, cache, running, reconnect, counters, gateway_url,
                   httpOpen, interrupted, broken, nRequests, pending, result,
                   loginResult, endResult, caller, closeCalls, cache0,
                   requestedInOpen, nCrashed, resolverVars>>

\* Faulty variant: an error stops the run loop.
ExceptDispatchStops ==
    /\ pc = "except"
    /\ dispatched' = Dispatch(dispatched, "on_error", <<exc>>)
    /\ exc' = None
    /\ running' = FALSE
    /\ pc' = "gw_return"
    /\ UNCHANGED <<token, me, cache, gateway, reconnect, counters, gateway_url,
                   httpOpen, live, nOpens, interrupted, broken, nRequests, pending,
                   result, loginResult, endResult, caller, closeCalls, cache0,
                   openedWith, requestedInOpen, nCrashed, resolverVars>>

\* Faulty variant: a failure of the "on_error" handler comes out of the dispatch
\* and leaves the except block and gateway_run.
ExceptDispatchRaises ==
    /\ pc = "except"
    /\ dispatched' = Dispatch(dispatched, "on_error", <<exc>>)
    /\ exc' = None
    /\ pending' = "HandlerError"
    /\ pc' = "finally"
    /\ UNCHANGED <<token, clientVars, counters, gateway_url, httpOpen, live, nOpens,
                   interrupted, broken, nRequests, result, loginResult, endResult,
                   caller, closeCalls, cache0, openedWith, requestedInOpen, nCrashed, resolverVars>>

\* except Exception as e: await self.dispatcher.dispatch("on_error", e)
\* and back to the test of the while loop.
ExceptDispatch ==
    /\ pc = "except"
    /\ dispatched' = Dispatch(dispatched, "on_error", <<exc>>)
    /\ exc' = None
    /\ pc' = IF running THEN "loop" ELSE "gw_return"
    /\ UNCHANGED <<token, clientVars, counters, gateway_url, httpOpen, live, nOpens,
                   interrupted, broken, nRequests, pending, result, loginResult, endResult, caller,
                   closeCalls, cache0,
                   openedWith, requestedInOpen, nCrashed, resolverVars>>

\* gateway_run returns, and wrapped() and asyncio.run(wrapped()) with it.
WrappedReturns ==
    /\ pc = "gw_return"
    /\ pc' = "finally"
    /\ UNCHANGED <<token, clientVars, counters, gateway_url, httpOpen, live, nOpens,
                   interrupted, broken, nRequests, exc, pending, result, loginResult, endResult,
                   caller, dispatched, closeCalls, cache0,
                   openedWith, requestedInOpen, nCrashed, resolverVars>>

\* ------------------------------------------------------------- environment
\* The reconnect signal is set from outside while the controller is suspended;
\* setting a signal that is set already leaves it set.
RequestReconnect ==
    /\ \/ pc \in {"loop", "except"} /\ ~reconnect
       \/ pc = "reconnect_open" /\ ~requestedInOpen
    /\ ~broken
    /\ nRequests < MaxRequests
    /\ nRequests' = nRequests + 1
    /\ reconnect' = TRUE
    /\ requestedInOpen' = (requestedInOpen \/ pc = "reconnect_open")
    /\ UNCHANGED <<pc, token, me, cache, running, gateway, counters, gateway_url,
                   httpOpen, live, nOpens, interrupted, broken, exc, pending, result,
                   loginResult, endResult, caller, dispatched, closeCalls, cache0,
                   openedWith, nCrashed, resolverVars>>

\* A handler scheduled by a dispatch of "on_error" fails while the event loop
\* runs; the Dispatcher captures the failure and only logs it.
HandlerCrashes ==
    /\ pc \in WrappedPcs
    /\ nCrashed < Len(dispatched)
    /\ nCrashed' = nCrashed + 1
    /\ UNCHANGED <<pc, token, clientVars, counters, gateway_url, httpOpen, live,
                   nOpens, interrupted, broken, nRequests, exc, pending, result,
                   loginResult, endResult, caller, dispatched, closeCalls, cache0,
                   openedWith, requestedInOpen, resolverVars>>

\* From here on the connection cannot be driven: every gateway.loop() raises
\* and nothing requests a reconnect.
ConnectionBreaks ==
    /\ pc = "loop"
    /\ ~broken
    /\ ~reconnect
    /\ broken' = TRUE
    /\ UNCHANGED <<pc, token, interrupted, clientVars, counters, gateway_url, httpOpen, live, nOpens,
                   nRequests, exc, pending, result, loginResult, endResult, caller,
                   dispatched, closeCalls, cache0,
                   openedWith, requestedInOpen, nCrashed, resolverVars>>

\* The operator interrupts the process while wrapped() is suspended.
Interrupt ==
    /\ pc \in WrappedPcs
    /\ interrupted' = TRUE
    /\ pc' = "kbint"
    /\ UNCHANGED <<token, clientVars, counters, gateway_url, httpOpen, live, nOpens,
                   broken, nRequests, exc, pending, result, loginResult, endResult,
                   caller, dispatched, closeCalls, cache0,
                   openedWith, requestedInOpen, nCrashed, resolverVars>>

\* ------------------------------------------------------ run: except, finally
\* Faulty variant: the interrupt handler shuts down itself, and the finally
\* clause does so again.
ExceptKeyboardInterruptShutsDown ==
    /\ pc = "kbint"
    /\ pending' = None
    /\ nEndRun' = nEndRun + 1
    /\ closeCalls' = closeCalls \o <<"gateway.close(reconnect=False)", "http.close()">>
    /\ httpOpen' = FALSE
    /\ live' = ConnectionClosed(live, gateway)
    /\ pc' = "finally"
    /\ UNCHANGED <<token, clientVars, gateway_url, nOpens, interrupted, broken,
                   nRequests, exc, result, loginResult, endResult, caller, nAuth,
                   nEndpoint, nLoops, nSetCompletions, nRaised, dispatched, nShutdowns,
                   cache0,
                   openedWith, requestedInOpen, nCrashed, resolverVars>>

\* except KeyboardInterrupt: pass
ExceptKeyboardInterrupt ==
    /\ pc = "kbint"
    /\ pending' = None
    /\ pc' = "finally"
    /\ UNCHANGED <<token, clientVars, counters, gateway_url, httpOpen, live, nOpens,
                   interrupted, broken, nRequests, exc, result, loginResult, endResult, caller,
                   dispatched, closeCalls, cache0,
                   openedWith, requestedInOpen, nCrashed, resolverVars>>

\* finally: asyncio.run(self._end_run())
Finally ==
    /\ pc = "finally"
    /\ nEndRun' = nEndRun + 1
    /\ caller' = "run"
    /\ pc' = "end_gateway_close"
    /\ UNCHANGED <<token, clientVars, gateway_url, httpOpen, live, nOpens, interrupted, broken,
                   nRequests, exc, pending, result, loginResult, endResult, nAuth,
                   nEndpoint, nLoops, nSetCompletions, nRaised, dispatched, nShutdowns,
                   closeCalls, cache0,
                   openedWith, requestedInOpen, nCrashed, resolverVars>>

\* _end_run called once more, directly, after run(token) has finished.
ShutdownAgain ==
    /\ pc = "done"
    /\ nShutdowns < MaxShutdowns
    /\ nShutdowns' = nShutdowns + 1
    /\ caller' = "direct"
    /\ endResult' = None
    /\ pc' = "end_gateway_close"
    /\ UNCHANGED <<token, clientVars, gateway_url, httpOpen, live, nOpens, interrupted, broken,
                   nRequests, exc, pending, result, loginResult, nAuth, nEndpoint,
                   nLoops, nSetCompletions, nRaised, dispatched, nEndRun, closeCalls,
                   cache0,
                   openedWith, requestedInOpen, nCrashed, resolverVars>>

\* ---------------------------------------------------------------- _end_run
\* How an outcome of _end_run reaches its caller: out of run(token) an error of
\* the finally clause replaces the one in flight, and a clean finally clause
\* lets the one in flight go on.
EndRunOutcome(outcome) ==
    /\ pc' = "done"
    /\ IF caller = "run"
         THEN /\ result' = IF outcome = "returned" /\ pending # None
                             THEN pending ELSE outcome
              /\ UNCHANGED endResult
         ELSE /\ endResult' = outcome
              /\ UNCHANGED result

\* await self.gateway.close(reconnect=False)
EndRunGatewayClose ==
    /\ pc = "end_gateway_close"
    /\ IF gateway = NoObject
         THEN /\ EndRunOutcome("AttributeError")
              /\ UNCHANGED <<closeCalls, live>>
         ELSE /\ closeCalls' = Append(closeCalls, "gateway.close(reconnect=False)")
              /\ live' = ConnectionClosed(live, gateway)
              /\ pc' = "end_http_close"
              /\ UNCHANGED <<result, endResult>>
    /\ UNCHANGED <<token, clientVars, counters, gateway_url, httpOpen, nOpens, interrupted, broken,
                   nRequests, exc, pending, loginResult, caller, dispatched, cache0,
                   openedWith, requestedInOpen, nCrashed, resolverVars>>

\* Faulty variant: shutdown marks itself done and returns at once when the
\* Origin has been released already.
EndRunHTTPCloseOnce ==
    /\ pc = "end_http_close"
    /\ closeCalls' = IF httpOpen THEN Append(closeCalls, "http.close()") ELSE closeCalls
    /\ httpOpen' = FALSE
    /\ EndRunOutcome("returned")
    /\ UNCHANGED <<token, clientVars, counters, gateway_url, live, nOpens, interrupted,
                   broken, nRequests, exc, pending, loginResult, caller, dispatched,
                   cache0,
                   openedWith, requestedInOpen, nCrashed, resolverVars>>

\* await self.http.close()
EndRunHTTPClose ==
    /\ pc = "end_http_close"
    /\ closeCalls' = Append(closeCalls, "http.close()")
    /\ httpOpen' = FALSE
    /\ EndRunOutcome("returned")
    /\ UNCHANGED <<token, clientVars, counters, gateway_url, live, nOpens, interrupted, broken,
                   nRequests, exc, pending, loginResult, caller, dispatched, cache0,
                   openedWith, requestedInOpen, nCrashed, resolverVars>>

\* ------------------------------------------------------------ the resolver
\* ClientCache.get_type(id, _type): the entity cached for the type and the
\* identifier, or None.
CacheGet(c, id, t) ==
    LET n == Lower(t.name)
        kind == IF n = <<"guild">> THEN "guild" ELSE IF n = <<"user">> THEN "user" ELSE "other"
    IN  IF <<kind, id>> \in DOMAIN c THEN c[<<kind, id>>] ELSE NoObject

\* Faulty variant: the name is compared as it is written, without lower().
FetchFunctionFromTypeCaseSensitive(http, t) ==
    LET t_name == t.name
    IN  IF Contains(t_name, "channel") THEN Returned(<<http, "get_channel">>)
        ELSE IF t_name = <<"guild">> THEN Returned(<<http, "get_guild">>)
        ELSE IF t_name = <<"user">> THEN Returned(<<http, "get_user">>)
        ELSE Raised("TypeError: invalid type passed in")

\* _fetch_function_from_type(http, t)
FetchFunctionFromType(http, t) ==
    LET t_name == IF t.isType THEN Lower(t.name) ELSE Lower(t.name)
    IN  IF Contains(t_name, "channel") THEN Returned(<<http, "get_channel">>)
        ELSE IF t_name = <<"guild">> THEN Returned(<<http, "get_guild">>)
        ELSE IF t_name = <<"user">> THEN Returned(<<http, "get_user">>)
        ELSE Raised("TypeError: invalid type passed in")

\* A call of _fetch_function_from_type with the positional arguments args:
\* the two parameters must both be bound before the body runs.
CallFetchFunctionFromType(args) ==
    IF Len(args) # 2
      THEN Raised("TypeError: _fetch_function_from_type() missing 1 required positional argument: 't'")
      ELSE FetchFunctionFromType(args[1], args[2])

\* The part of grab after a cache miss: the fetch function is asked for with
\* the single argument _type; were one returned, fetch_func(id) would be
\* handed to run_in_executor in the place of the executor.
GrabMiss(id, t) ==
    LET fetch_func == CallFetchFunctionFromType(<<t>>)
    IN  /\ selectCalls' = selectCalls + 1
        /\ UNCHANGED fetchCalls
        /\ grabResult' =
              IF fetch_func.outcome = "raised"
                THEN fetch_func
                ELSE Raised("TypeError: run_in_executor() missing 1 required positional argument: 'func'")

\* Faulty variant: the cache is not trusted and the object is asked for anew
\* on every call.
GrabRefreshes(id, t) ==
    /\ nGrabs < MaxGrabs
    /\ nGrabs' = nGrabs + 1
    /\ grabArgs' = [id |-> id, type |-> t]
    /\ grabHit' = (CacheGet(cache, id, t) # NoObject)
    /\ GrabMiss(id, t)
    /\ UNCHANGED <<sessionVars, selectArg, selectResult>>

\* grab(id, _type)
Grab(id, t) ==
    /\ nGrabs < MaxGrabs
    /\ nGrabs' = nGrabs + 1
    /\ grabArgs' = [id |-> id, type |-> t]
    /\ LET obj == CacheGet(cache, id, t)
       IN  /\ grabHit' = (obj # NoObject)
           /\ IF obj = NoObject
                 THEN GrabMiss(id, t)
                 ELSE /\ grabResult' = Returned(obj)
                      /\ UNCHANGED <<selectCalls, fetchCalls>>
    /\ UNCHANGED <<sessionVars, selectArg, selectResult>>

\* _fetch_function_from_type(http, t), called with both arguments.
Select(t) ==
    /\ selectArg' = t
    /\ selectResult' = CallFetchFunctionFromType(<<"http", t>>)
    /\ UNCHANGED <<sessionVars, nGrabs, grabArgs, grabHit, grabResult, selectCalls,
                   fetchCalls>>

ResolverNext == \E id \in GrabIds, t \in GrabTypes : Grab(id, t)

SelectNext == \E t \in TypeArgs : Select(t)

\* -------------------------------------------------------------------- Next
Next ==
    \/ \E t \in Tokens : Run(t)
    \/ LoginSucceeds
    \/ LoginFails
    \/ \E ok \in BOOLEAN : GetGatewayBot(ok)
    \/ \E ok \in BOOLEAN : FirstConnect(ok)
    \/ \E req \in BOOLEAN : LoopReturns(req)
    \/ \E closed \in BOOLEAN : LoopRaises(closed)
    \/ \E ok \in BOOLEAN : ReconnectOpen(ok)
    \/ ExceptDispatch
    \/ WrappedReturns
    \/ RequestReconnect
    \/ HandlerCrashes
    \/ ConnectionBreaks
    \/ Interrupt
    \/ ExceptKeyboardInterrupt
    \/ Finally
    \/ ShutdownAgain
    \/ EndRunGatewayClose
    \/ EndRunHTTPClose

Spec == Init /\ [][Next]_vars

\* The event loop keeps running the task it was given: a step that can be
\* taken is taken.
FairSpec == Init /\ [][Next]_vars /\ WF_vars(Next)

\* The application using the resolver of a constructed client.
ResolverSpec == Init /\ [][ResolverNext]_vars

\* The fetch operation being chosen for every type the application can name.
SelectSpec == Init /\ [][SelectNext]_vars

\* ------------------------------------------------------------------ claims
OnError(e) == [name |-> "on_error", args |-> <<e>>]

\* C1: when no exception is raised and the run unit completes with the
\* reconnect signal set n times and then with the signal clear, gateway_run
\* has opened n+1 connections, has driven the run unit n+1 times and ends
\* with running = False; on the way, each completion with the signal set is
\* followed by exactly one open.
C1_ReconnectsThenTerminated ==
    (nRaised = 0 /\ nSetCompletions < MaxCount) =>
        /\ pc = "gw_return" =>
              /\ nOpens = nSetCompletions + 1
              /\ nLoops = nSetCompletions + 1
              /\ ~running
        /\ pc = "reconnect_open" => nOpens = nSetCompletions /\ nLoops = nSetCompletions
        /\ pc = "loop" => nOpens = nSetCompletions + 1 /\ nLoops = nSetCompletions

\* Three completions with the signal set, then one with it clear: four
\* connections, four drives.
C1_Witness ==
    /\ pc = "gw_return"
    /\ nRaised = 0
    /\ nSetCompletions = 3
    /\ nOpens = 4
    /\ nLoops = 4
    /\ ~running

C3_LoopExceptionCaught ==
    [][ /\ (pc \in {"loop", "reconnect_open"} /\ nRaised < MaxCount /\ nRaised' # nRaised) =>
              (pc' = "except" /\ running' /\ exc' # None /\ dispatched' = dispatched)
        /\ (pc = "except" /\ pc' \notin {"except", "kbint"}) =>
              /\ pc' = "loop"
              /\ running'
              /\ Len(dispatched) < MaxCount => dispatched' = Append(dispatched, OnError(exc))
        /\ nRaised' > 0 => (pending' = None /\ result' \in {None, "returned"})
      ]_vars

\* The loop raised twice, both exceptions were dispatched, and run(token)
\* has returned.
C3_Witness ==
    /\ nRaised = 2
    /\ Len(dispatched) = 2
    /\ pc = "done"
    /\ result = "returned"

\* C4 as claimed: once every drive of the run unit raises and no reconnect is
\* requested, the controller does not loop forever: it eventually leaves the
\* run loop, as it must to reach Terminated.
C4_EventuallyTerminated == (broken /\ pc = "loop") ~> (pc \notin {"loop", "except"})

\* C4 as amended: once every drive of the run unit raises and no reconnect is
\* requested, running stays True and the controller only alternates between
\* driving the run unit and dispatching the error; nothing but an interrupt
\* takes it out of the loop.
C4_ErrorLoopContinues ==
    [][ (broken /\ pc \in {"loop", "except"}) =>
            /\ running'
            /\ pc' \in {"loop", "except", "kbint"}
            /\ (pc = "loop" /\ pc' # "loop") => pc' \in {"except", "kbint"}
            /\ (pc = "except" /\ pc' # "except") => pc' \in {"loop", "kbint"}
      ]_vars

\* The unusable connection has been driven again after two dispatched errors.
C4_Witness ==
    /\ broken
    /\ pc = "loop"
    /\ running
    /\ nRaised >= 2
    /\ Len(dispatched) >= 2

\* C5: when the authenticate call fails, login fails with the authentication
\* error, me, cache, running and gateway are as before the call, and within
\* run(token) no endpoint is requested, no connection opened, no run unit
\* driven.
C5_FailedLoginLeavesIdle ==
    (token = "bad-token" /\ nAuth >= 1) =>
        /\ loginResult = "AuthenticationError"
        /\ me = NoObject
        /\ cache = cache0
        /\ ~running
        /\ gateway = NoObject
        /\ gateway_url = None
        /\ nEndpoint = 0
        /\ nOpens = 0
        /\ live = {}
        /\ nLoops = 0
        /\ pc \notin (WrappedPcs \cup {"gw_return"})

\* run("bad-token") has finished, on a controller whose cache was not empty.
C5_Witness ==
    /\ token = "bad-token"
    /\ loginResult = "AuthenticationError"
    /\ cache0 # EmptyCache
    /\ result # None

\* C6: login calls authenticate exactly once, and when the call succeeded the
\* bot user is recorded as me and the cache holds that same entity under its
\* key.
C6_LoginStoresMe ==
    /\ nAuth = (IF loginResult = None THEN 0 ELSE 1)
    /\ pc = "login" => loginResult = None
    /\ (pc \notin {"idle", "login"} /\ ~interrupted) => loginResult # None
    /\ loginResult = "returned" =>
          /\ me # NoObject
          /\ me.kind = "user"
          /\ cache[<<"user", me.id>>] = me

\* login has returned on a controller whose cache held an older entity of the
\* bot user, and the run loop is being driven.
C6_Witness ==
    /\ loginResult = "returned"
    /\ nAuth = 1
    /\ cache0[<<"user", "bot">>] # NoObject
    /\ cache0[<<"user", "bot">>] # me
    /\ pc = "loop"

\* C7: run(token) invokes _end_run exactly once on every path, and only
\* after login and gateway_run have stopped.
C7_ShutdownExactlyOnce ==
    /\ nEndRun <= 1
    /\ (pc \in (WrappedPcs \cup {"idle", "gw_return", "kbint", "finally"})) => nEndRun = 0
    /\ (pc \in {"end_gateway_close", "end_http_close", "done"}) => nEndRun = 1
    /\ result # None => nEndRun = 1

\* run(token) was interrupted while the run loop was handling an error, and
\* has finished.
C7_Witness ==
    /\ result # None
    /\ interrupted
    /\ nRaised >= 1
    /\ nEndRun = 1

\* C8 as claimed: an interrupted run(token) returns normally.
C8_InterruptReturnsNormally ==
    (interrupted /\ result # None) => result = "returned"

\* C9 as claimed: when run(token) has finished, the Connection was asked to
\* close without reconnect and then the Origin was closed.
C9_EverythingClosed ==
    result # None =>
        /\ Len(closeCalls) >= 2
        /\ closeCalls[1] = "gateway.close(reconnect=False)"
        /\ closeCalls[2] = "http.close()"
        /\ ~httpOpen
        /\ live = {}

C14_OnErrorNameAndException ==
    \A i \in DOMAIN dispatched :
        dispatched[i].name = "on_error" =>
            /\ Len(dispatched[i].args) = 2
            /\ dispatched[i].args[2] \in {"LoopError", "ConnectError"}

\* C16 as claimed: running is False before run(token), True only once a
\* Connection has been opened, and False again whenever run(token) has
\* finished.
C16_RunningTellsRunning ==
    /\ pc = "idle" => ~running
    /\ running => nOpens >= 1
    /\ result # None => ~running

C17_RequestDuringOpenKept ==
    [][ (pc = "reconnect_open" /\ pc' = "loop" /\ requestedInOpen) => reconnect' ]_vars

\* C17 as amended: after a completion with the signal set the controller
\* opens the new connection first and clears the signal when the open has
\* completed, whatever was requested meanwhile; a failed open leaves the
\* signal set; a completion with the signal clear opens nothing and ends the
\* loop with running = False.
C17_OpenThenClear ==
    [][ /\ (pc = "reconnect_open" /\ pc' = "loop") =>
              (reconnect /\ ~reconnect' /\ nOpens' = nOpens + 1)
        /\ (pc = "reconnect_open" /\ pc' = "except") => (reconnect' /\ nOpens' = nOpens)
        /\ (pc = "loop" /\ pc' = "reconnect_open") => (reconnect' /\ nOpens' = nOpens)
        /\ (pc = "loop" /\ pc' = "gw_return") =>
              (~reconnect /\ ~reconnect' /\ ~running' /\ nOpens' = nOpens)
      ]_vars

\* A request raised during the open has been cleared with the open's
\* completion: the new connection is driven with the signal clear.
C17_Witness ==
    /\ pc = "loop"
    /\ requestedInOpen
    /\ ~reconnect
    /\ nOpens >= 2

\* C18: within one gateway_run the endpoint is obtained once, before the
\* first connection, and every connection is opened against it.
C18_OneEndpoint ==
    /\ nEndpoint <= 1
    /\ nOpens = 0 => openedWith = {}
    /\ nOpens >= 1 =>
          /\ nEndpoint = 1
          /\ gateway_url \in Endpoints
          /\ openedWith = {gateway_url}

\* Three connections opened against the one endpoint, with an error caught
\* in between.
C18_Witness ==
    /\ nOpens >= 3
    /\ nRaised >= 1
    /\ nEndpoint = 1
    /\ openedWith = {"wss://b"}

\* C19: the exception branch changes no controller state: on the way into
\* the handler and through it the signal, running and the held connection
\* stay as they were; a reconnect whose open failed leaves the signal set,
\* and the next completion of the run unit tries the open again.
C19_ExceptionBranchFrame ==
    [][ /\ (pc \in {"loop", "reconnect_open"} /\ pc' = "except") =>
              UNCHANGED <<reconnect, running, gateway>>
        /\ (pc = "except" /\ nRequests' = nRequests) =>
              UNCHANGED <<reconnect, running, gateway>>
        /\ (pc = "reconnect_open" /\ pc' = "except") => reconnect'
        /\ (pc = "loop" /\ reconnect /\ pc' \notin {"loop", "except", "kbint"}) =>
              pc' = "reconnect_open"
      ]_vars

\* The open of a reconnect failed, the error was dispatched, and after the
\* next completion the open is being tried again with the signal still set.
C19_Witness ==
    /\ pc = "reconnect_open"
    /\ reconnect
    /\ nOpens = 1
    /\ nSetCompletions = 2
    /\ dispatched = <<OnError("ConnectError")>>

\* ---------------------------------------------------------------- resolver
\* The names the fetch-function selection accepts.
Recognized(t) == FetchFunctionFromType("http", t).outcome = "returned"

\* C11: after a call of grab that missed the cache with a recognized type, the
\* call has returned the constructed entity and the cache holds that entity
\* under the type and the identifier, so that the next grab of the key is a hit.
C11_MissFetchesAndCaches ==
    (nGrabs >= 1 /\ ~grabHit /\ Recognized(grabArgs.type)) =>
        /\ grabResult.outcome = "returned"
        /\ CacheGet(cache, grabArgs.id, grabArgs.type) = grabResult.value

\* C12: a call of grab for a key the cache holds returns exactly the cached
\* entity, asks for no fetch function, calls no fetch operation of the Origin
\* and leaves the cache as it was.
C12_HitReturnsCached ==
    [][(nGrabs' # nGrabs /\ CacheGet(cache, grabArgs'.id, grabArgs'.type) # NoObject) =>
          /\ grabResult' = Returned(cache[<<Lower(grabArgs'.type.name)[1], grabArgs'.id>>])
          /\ selectCalls' = selectCalls
          /\ fetchCalls' = fetchCalls
          /\ cache' = cache]_vars

C12_Witness ==
    /\ nGrabs = 2
    /\ grabHit
    /\ grabArgs = [id |-> "bot", type |-> StrOf(<<"USER">>)]
    /\ grabResult = Returned(Entity("user", "bot", "earlier"))

\* C13: after a call of grab that missed the cache with an unrecognized type,
\* the call has failed with the invalid-type error, no fetch operation of the
\* Origin was called and the cache is as it was.
C13_MissInvalidType ==
    (nGrabs >= 1 /\ ~grabHit /\ ~Recognized(grabArgs.type)) =>
        /\ grabResult = Raised("TypeError: invalid type passed in")
        /\ fetchCalls = <<>>
        /\ cache = cache0

\* C20: the selection depends on the name without regard to case, the same for
\* a class and for a string: a name containing "channel" selects get_channel,
\* otherwise the name "guild" selects get_guild and the name "user" get_user,
\* and every other name is rejected.
C20_SelectionMapping ==
    selectArg # NoObject =>
        LET n == selectArg.name
            hasChannel == \E i \in DOMAIN n : n[i] \in {"channel", "Channel"}
            isGuild == n \in {<<"guild">>, <<"Guild">>}
            isUser == n \in {<<"user">>, <<"USER">>}
        IN  /\ hasChannel => selectResult = Returned(<<"http", "get_channel">>)
            /\ (~hasChannel /\ isGuild) => selectResult = Returned(<<"http", "get_guild">>)
            /\ (~hasChannel /\ isUser) => selectResult = Returned(<<"http", "get_user">>)
            /\ (~hasChannel /\ ~isGuild /\ ~isUser) =>
                  selectResult = Raised("TypeError: invalid type passed in")

C20_Witness ==
    /\ selectArg = ClassOf(<<"Guild", "Channel">>)
    /\ selectResult = Returned(<<"http", "get_channel">>)
====
